---- MODULE Spec2Model ----
(***************************************************************************)
(* analytics-badge (src/badge.go): the badge handler's two-tier metric      *)
(* resolution (memcache -> datastore -> analytics API), the Account token   *)
(* holder and the SVG badge layout.                                         *)
(*                                                                          *)
(* Strings the code parses or formats are sequences of one-character        *)
(* strings, so that strconv.Atoi and strconv.Itoa are real conversions.     *)
(* A memcache key "b:"+path is the pair <<"b:", path>>.  A *oauth.Token is  *)
(* a sequence of length 0 (nil) or 1 (a pointer to a token record).         *)
(* Time is counted in hours.                                                *)
(***************************************************************************)
EXTENDS Integers, Sequences, FiniteSets, TLC

\* ------------------------------------------------------------- bounds

\* the clock stops here (hours)
MaxTime == 12
\* the clock is observed every TickHours hours
TickHours == 6
\* access tokens the authorization server issues in one run
MaxIssued == 2
\* characters in the strings size is applied to
MaxLen == 2
\* times one function is applied to the same input
MaxApply == 2

\* ---------------------------------------------------- program constants

\* Expiration of a badge cache item, in hours
BadgeTTL == 12

\* --------------------------------------------------------------- strconv

DigitChars == <<"0", "1", "2", "3", "4", "5", "6", "7", "8", "9">>

IsDigit(c) == \E i \in 1..10 : DigitChars[i] = c

DigitVal(c) == (CHOOSE i \in 1..10 : DigitChars[i] = c) - 1

RECURSIVE DigitsVal(_)
\* value of a non-empty run of decimal digits
DigitsVal(s) ==
    IF Len(s) = 0 THEN 0
    ELSE 10 * DigitsVal(SubSeq(s, 1, Len(s) - 1)) + DigitVal(s[Len(s)])

AllDigits(s) == Len(s) > 0 /\ \A i \in 1..Len(s) : IsDigit(s[i])

\* strconv.Atoi succeeds: an optional sign, then one or more digits
AtoiOk(s) ==
    /\ Len(s) > 0
    /\ IF s[1] \in {"+", "-"} THEN AllDigits(Tail(s)) ELSE AllDigits(s)

\* strconv.Atoi's value, where it succeeds
Atoi(s) ==
    IF s[1] = "-" THEN 0 - DigitsVal(Tail(s))
    ELSE IF s[1] = "+" THEN DigitsVal(Tail(s))
    ELSE DigitsVal(s)

RECURSIVE NatToStr(_)
NatToStr(n) ==
    IF n < 10 THEN <<DigitChars[n + 1]>>
    ELSE Append(NatToStr(n \div 10), DigitChars[(n % 10) + 1])

\* strconv.Itoa
Itoa(n) == IF n < 0 THEN <<"-">> \o NatToStr(0 - n) ELSE NatToStr(n)

\* ------------------------------------------------------ metric and size

\* metric with the boundary values in the upper buckets
metricInclusive(i) ==
    IF i >= 1000000 THEN
        [number |-> Itoa(i \div 1000000) \o <<"M">>, color |-> "#4c1"]
    ELSE IF i >= 1000 THEN
        [number |-> Itoa(i \div 1000) \o <<"k">>, color |-> "#a4a61d"]
    ELSE [number |-> Itoa(i), color |-> "#e05d44"]

metric(i) ==
    IF i > 1000000 THEN
        [number |-> Itoa(i \div 1000000) \o <<"M">>, color |-> "#4c1"]
    ELSE IF i > 1000 THEN
        [number |-> Itoa(i \div 1000) \o <<"k">>, color |-> "#a4a61d"]
    ELSE [number |-> Itoa(i), color |-> "#e05d44"]

\* the grave accent, U+0060, which a TLA+ string cannot hold
BackQuote == "U+0060"

\* charWidth with K and L in the case of six
charWidthNoSeven(c) ==
    IF c = "i" THEN 2
    ELSE IF c \in {";", "I", "\\", "f", "j", "l", "r", "t"} THEN 4
    ELSE IF c \in {"<", ">", "@", "G", "O", "W", "m"} THEN 10
    ELSE IF c \in {"1", "3", "5", "7", "9", ":", "?", "E", "F", "J", "K", "L",
                   "P", "T", "Z", "[", "]", BackQuote, "b", "c", "d", "g",
                   "k", "o", "p", "s", "v", "y"} THEN 6
    ELSE 8

charWidth(c) ==
    IF c = "i" THEN 2
    ELSE IF c \in {";", "I", "\\", "f", "j", "l", "r", "t"} THEN 4
    ELSE IF c \in {"1", "3", "5", "7", "9", ":", "?", "E", "F", "J", "P",
                   "T", "Z", "[", "]", BackQuote, "b", "c", "d", "g", "k", "o",
                   "p", "s", "v", "y"} THEN 6
    ELSE IF c \in {"K", "L"} THEN 7
    ELSE IF c \in {"<", ">", "@", "G", "O", "W", "m"} THEN 10
    ELSE 8

RECURSIVE sizeFrom(_, _)
\* the loop of size: r after the characters of s
sizeFrom(r, s) ==
    IF Len(s) = 0 THEN r ELSE sizeFrom(r + charWidth(Head(s)), Tail(s))

size(s) == sizeFrom(10, s)

LeftLabel == <<"u", "s", "e", "r", "s">>

WeekSuffix == <<"/", "w", "e", "e", "k">>

\* BadgeParams with both centres at the middle of their halves
BadgeParamsMiddle(total) ==
    LET m == metric(total)
        LeftWidth == size(LeftLabel)
        RightWidth == size(m.number \o WeekSuffix)
    IN  [Color |-> m.color, Left |-> LeftLabel, Right |-> m.number \o WeekSuffix,
         LeftWidth |-> LeftWidth, RightWidth |-> RightWidth,
         LeftCenter |-> LeftWidth \div 2,
         RightCenter |-> LeftWidth + (RightWidth \div 2),
         Total |-> LeftWidth + RightWidth]

\* the template parameters the badge handler fills in for a total
BadgeParams(total) ==
    LET m == metric(total)
        Left == LeftLabel
        Right == m.number \o WeekSuffix
        LeftWidth == size(Left)
        RightWidth == size(Right)
    IN  [Color |-> m.color, Left |-> Left, Right |-> Right,
         LeftWidth |-> LeftWidth, RightWidth |-> RightWidth,
         LeftCenter |-> (LeftWidth \div 2) + 1,
         RightCenter |-> LeftWidth + (RightWidth \div 2) - 1,
         Total |-> LeftWidth + RightWidth]

\* --------------------------------------------------------------- Account

\* the zero value of Account
ZeroAccount ==
    [Username |-> "", AccessToken |-> "", RefreshToken |-> "", Expiry |-> 0]

NilToken == <<>>

GetToken(a) ==
    IF a.AccessToken = "" THEN NilToken
    ELSE <<[AccessToken |-> a.AccessToken,
            RefreshToken |-> a.RefreshToken,
            Expiry |-> a.Expiry]>>

\* SetToken that leaves the expiry as it was
SetTokenKeepsExpiry(a, t) ==
    [a EXCEPT !.AccessToken = t.AccessToken,
              !.RefreshToken = IF t.RefreshToken # "" THEN t.RefreshToken
                               ELSE a.RefreshToken]

\* SetToken that always takes the token's refresh token
SetTokenClobbers(a, t) ==
    [a EXCEPT !.AccessToken = t.AccessToken,
              !.RefreshToken = t.RefreshToken,
              !.Expiry = t.Expiry]

\* a after a.SetToken(t), t a token record
SetToken(a, t) ==
    [a EXCEPT !.AccessToken = t.AccessToken,
              !.RefreshToken = IF t.RefreshToken # "" THEN t.RefreshToken
                               ELSE a.RefreshToken,
              !.Expiry = t.Expiry]

\* ------------------------------------------------------------ the stores

VARIABLES
    now,         \* the time, in hours
    memcache,    \* key -> [Value, Expires], the items stored
    dsProperty,  \* Property entities by key name (the property id)
    dsAccount,   \* Account entities by key name (the username)
    issued,      \* access tokens the authorization server has issued
    req,         \* the badge requests being served
    sess,        \* the request being served through Wrapper
    holder,      \* an Account on which SetToken and GetToken are called
    pure,        \* metric, size or the layout applied to inputs of its own
    origin       \* badge cache key -> the profile its item was fetched for

\* what the handlers leave alone
aux == <<holder, pure, origin>>

vars == <<now, memcache, dsProperty, dsAccount, issued, req, sess, aux>>

\* the badge requests that may be in flight together
Reqs == {"r1", "r2"}

P1 == <<"p", "1">>

P2 == <<"p", "2">>

Ghost == <<"g", "h", "o", "s", "t">>

BadgePrefix == <<"/", "b", "a", "d", "g", "e", "/">>

SvgSuffix == <<".", "s", "v", "g">>

\* the URL paths requested: a badge of each id, and the bare prefix
BadgeUrls == {BadgePrefix \o id \o SvgSuffix : id \in {P1, P2, Ghost}}
                 \cup {BadgePrefix}

\* the key "b:"+path
BadgeKey(path) == <<"b:", path>>

\* the access tokens the authorization server issues, in order
TokenNames == <<"a1", "a2", "a3", "a4">>

\* refresh tokens a token response may carry: none, or a new one
RefreshOffers == {"", "r1"}

\* the ga:users totals the analytics API may report
ApiTotals == {<<"7">>, <<"+", "4", "2">>, <<>>}

\* memcache.Get finds an item: one is stored under key and has not expired
CacheHit(key) == key \in DOMAIN memcache /\ memcache[key].Expires > now

\* memcache after a successful Set of value under key for ttl hours
CacheSet(key, value, ttl) ==
    [k \in DOMAIN memcache \cup {key} |->
        IF k = key THEN [Value |-> value, Expires |-> now + ttl]
        ELSE memcache[k]]

\* AccountPut that keeps the refresh token of the entity already stored
AccountPutKeepsRefresh(key, a) ==
    [k \in DOMAIN dsAccount \cup {key} |->
        IF k # key THEN dsAccount[k]
        ELSE IF key \in DOMAIN dsAccount
             THEN [a EXCEPT !.RefreshToken = dsAccount[key].RefreshToken]
             ELSE a]

\* the datastore's Account kind after a successful Put of a under key
AccountPut(key, a) ==
    [k \in DOMAIN dsAccount \cup {key} |-> IF k = key THEN a ELSE dsAccount[k]]

\* the zero value of Property
ZeroProperty == [Account |-> "", Id |-> <<>>, Profile |-> ""]

NoOps ==
    [cacheGet |-> 0, propGet |-> 0, acctGet |-> 0, fetch |-> 0,
     cacheSet |-> 0, acctPut |-> 0]

\* a badge request before it is served
IdleReq ==
    [pc |-> "idle", path |-> <<>>, total |-> 0, p |-> ZeroProperty,
     a |-> ZeroAccount, loaded |-> ZeroAccount, token |-> NilToken,
     result |-> <<>>, logged |-> {}, putErr |-> FALSE, ops |-> NoOps,
     headers |-> {}, body |-> <<>>]

\* Expiration of a session cache item, in hours
SessionTTL == 1

\* the session ids rand.Int63 may draw, which are also the cookies sent
SessionIds == {"s1"}

\* the key "s:"+id
SessionKey(id) == <<"s:", id>>

\* the user the authorization server and the analytics API answer for
ApiUsername == "alice"

\* the web property ids AccountSummaries.List reports for that user
ApiProperties == {P1, P2}

\* the forms posted to /manage: field name -> value
Forms ==
    { [id \in {P1} |-> "456"], [id \in {P1} |-> "123"],
      [id \in {P2, Ghost} |-> "456"] }

NoForm == <<>>

\* Wrapper between requests
IdleSess ==
    [pc |-> "idle", fn |-> "", post |-> FALSE, form |-> NoForm, Id |-> "",
     Account |-> ZeroAccount, Loaded |-> ZeroAccount, token |-> NilToken,
     properties |-> {}]

\* SetToken calls made on holder in one run
MaxCalls == 3

\* holder with the Account a and no call made on it yet
NewHolder(a) ==
    [init |-> a, a |-> a, supplied |-> <<>>, asked |-> FALSE, got |-> NilToken]

IdleHolder == NewHolder(ZeroAccount)

\* the functions before they are applied to anything
IdlePure == [fn |-> "", n |-> 0, s |-> <<>>, t |-> <<>>, outs |-> <<>>]

\* the totals metric and the layout are applied to
MetricInputs ==
    {0 - 1000001, 0 - 1500, 0 - 1, 0, 7, 42, 999, 1000, 1001, 1500, 1999,
     2000, 999999, 1000000, 1000001, 1999999, 2000000, 12345678}

\* the characters of the strings size is applied to: some of each case of
\* the switch
SizeChars ==
    {"i", "t", "k", BackQuote, "K", "L", "<", ">", "@", "G", "O", "W", "m",
     "x"}

\* the strings of at most k characters
StringsUpTo(k) == UNION {[1..m -> SizeChars] : m \in 0..k}

\* the pairs of strings that make a string of at most MaxLen characters
SizePairs ==
    UNION {{<<SubSeq(u, 1, i), SubSeq(u, i + 1, Len(u))>> : i \in 0..Len(u)} :
              u \in StringsUpTo(MaxLen)}

\* a function and the input it is about to be applied to
PureInputs ==
    {[IdlePure EXCEPT !.fn = "metric", !.n = n] : n \in MetricInputs}
    \cup {[IdlePure EXCEPT !.fn = "layout", !.n = n] : n \in MetricInputs}
    \cup {[IdlePure EXCEPT !.fn = "size", !.s = st[1], !.t = st[2]] :
              st \in SizePairs}

\* the Accounts holder may start from
HolderAccounts ==
    [Username : {"alice"}, AccessToken : {"", "a0"}, RefreshToken : {"", "r0"},
     Expiry : {0, 1}]

\* the tokens SetToken may be given
HolderTokens ==
    [AccessToken : {"", "a1"}, RefreshToken : {"", "r1", "r2"}, Expiry : {2, 3}]

BadgeHeaders ==
    {<<"Content-Type", "image/svg+xml">>,
     <<"Cache-Control", "public, max-age=3600">>}

\* the end of badge: the layout of rq.total goes out with the badge headers
Render(rq) ==
    [rq EXCEPT !.pc = "done", !.headers = BadgeHeaders,
               !.body = <<BadgeParams(rq.total)>>,
               !.p = ZeroProperty, !.token = NilToken]

\* Abort that writes the badge of zero instead of nothing
AbortRendersZero(rq, message) ==
    [rq EXCEPT !.pc = "aborted", !.logged = @ \cup {message},
               !.headers = BadgeHeaders, !.body = <<BadgeParams(0)>>,
               !.p = ZeroProperty, !.token = NilToken]

\* a return before the layout: the error is logged and nothing is written
Abort(rq, message) ==
    [rq EXCEPT !.pc = "aborted", !.logged = @ \cup {message},
               !.p = ZeroProperty, !.token = NilToken]

\* no item of memcache was stored by a badge request yet
NoOrigin == [k \in {} |-> ""]

\* the stores and the requests when the program starts
InitCore ==
    /\ now = 0
    /\ memcache =
          [k \in {BadgeKey(P2)} |->
              [Value |-> <<"n", "a", "n">>, Expires |-> TickHours]]
    /\ dsProperty =
          [id \in {P1, P2} |->
              IF id = P1 THEN [Account |-> "alice", Id |-> P1, Profile |-> "123"]
              ELSE [Account |-> "bob", Id |-> P2, Profile |-> "456"]]
    /\ dsAccount =
          [u \in {"alice"} |->
              [Username |-> "alice", AccessToken |-> "a0",
               RefreshToken |-> "r0", Expiry |-> 1]]
    /\ issued = 0
    /\ req = [r \in Reqs |-> IdleReq]
    /\ sess = IdleSess
    /\ origin = NoOrigin

Init == InitCore /\ holder = IdleHolder /\ pure = IdlePure

\* ------------------------------------------------------------- the clock

Tick ==
    /\ now + TickHours <= MaxTime
    /\ now' = now + TickHours
    /\ UNCHANGED <<aux, memcache, dsProperty, dsAccount, issued, req, sess>>

\* ----------------------------------------------------------------- badge

Finished(r) == req[r].pc \in {"idle", "done", "aborted", "panicked"}

\* lookup that never takes the item memcache.Get returned
lookupSkipsCache(url) ==
    IF Len(url) - 4 < 7 THEN [IdleReq EXCEPT !.pc = "panicked"]
    ELSE [IdleReq EXCEPT !.path = SubSeq(url, 8, Len(url) - 4),
                         !.ops.cacheGet = 1, !.pc = "getProperty"]

\* lookup that treats an item it cannot parse as a miss
lookupRetriesCorrupt(url) ==
    IF Len(url) - 4 < 7 THEN [IdleReq EXCEPT !.pc = "panicked"]
    ELSE LET path == SubSeq(url, 8, Len(url) - 4)
             key == BadgeKey(path)
             rq == [IdleReq EXCEPT !.path = path, !.ops.cacheGet = 1]
         IN  IF CacheHit(key) /\ AtoiOk(memcache[key].Value)
             THEN Render([rq EXCEPT !.total = Atoi(memcache[key].Value)])
             ELSE [rq EXCEPT !.pc = "getProperty"]

\* the request for url, up to the answer of memcache.Get and what follows a hit
lookup(url) ==
    IF Len(url) - 4 < 7
    THEN \* the slice bounds are out of range
         [IdleReq EXCEPT !.pc = "panicked"]
    ELSE LET path == SubSeq(url, 8, Len(url) - 4)
             key == BadgeKey(path)
             rq == [IdleReq EXCEPT !.path = path, !.ops.cacheGet = 1]
         IN  IF CacheHit(key)
             THEN IF AtoiOk(memcache[key].Value)
                  THEN Render([rq EXCEPT !.total = Atoi(memcache[key].Value)])
                  ELSE Abort(rq, "badge(Memcache read)")
             ELSE [rq EXCEPT !.pc = "getProperty"]

\* BadgeCacheGet that stores the item again after a hit
BadgeCacheGetTouches(r, url) ==
    /\ Finished(r)
    /\ req' = [req EXCEPT ![r] = lookup(url)]
    /\ memcache' =
          IF Len(url) - 4 >= 7 /\ CacheHit(BadgeKey(SubSeq(url, 8, Len(url) - 4)))
          THEN CacheSet(BadgeKey(SubSeq(url, 8, Len(url) - 4)),
                        memcache[BadgeKey(SubSeq(url, 8, Len(url) - 4))].Value,
                        BadgeTTL)
          ELSE memcache
    /\ UNCHANGED <<aux, now, dsProperty, dsAccount, issued, sess>>

\* badge, from the request to the answer of memcache.Get
BadgeCacheGet(r, url) ==
    /\ Finished(r)
    /\ req' = [req EXCEPT ![r] = lookup(url)]
    /\ UNCHANGED <<aux, now, memcache, dsProperty, dsAccount, issued, sess>>

\* rq after datastore.Get of the Property
afterProperty(rq) ==
    IF rq.path \in DOMAIN dsProperty
    THEN [rq EXCEPT !.ops.propGet = @ + 1, !.p = dsProperty[rq.path],
                    !.pc = "getAccount"]
    ELSE Abort([rq EXCEPT !.ops.propGet = @ + 1], "badge(Property)")

BadgeGetProperty(r) ==
    /\ req[r].pc = "getProperty"
    /\ req' = [req EXCEPT ![r] = afterProperty(req[r])]
    /\ UNCHANGED <<aux, now, memcache, dsProperty, dsAccount, issued, sess>>

\* afterAccount that goes on with the zero Account when none is stored
afterAccountMissing(rq) ==
    LET a == IF rq.p.Account \in DOMAIN dsAccount THEN dsAccount[rq.p.Account]
             ELSE ZeroAccount
    IN  [rq EXCEPT !.ops.acctGet = @ + 1, !.a = a, !.loaded = a,
                   !.token = <<[AccessToken |-> a.AccessToken,
                                RefreshToken |-> a.RefreshToken,
                                Expiry |-> a.Expiry]>>,
                   !.pc = "fetch"]

\* rq after datastore.Get of the Account: the snapshot and the transport's token
afterAccount(rq) ==
    IF rq.p.Account \in DOMAIN dsAccount
    THEN LET a == dsAccount[rq.p.Account] IN
         [rq EXCEPT !.ops.acctGet = @ + 1, !.a = a, !.loaded = a,
                    !.token = GetToken(a), !.pc = "fetch"]
    ELSE Abort([rq EXCEPT !.ops.acctGet = @ + 1], "badge(Account)")

BadgeGetAccount(r) ==
    /\ req[r].pc = "getAccount"
    /\ req' = [req EXCEPT ![r] = afterAccount(req[r])]
    /\ UNCHANGED <<aux, now, memcache, dsProperty, dsAccount, issued, sess>>

\* the token the transport holds after a refresh or an exchange that the
\* server answers with access token number n, good for an hour, and the
\* refresh token offer ("" none)
Refreshed(n, offer) ==
    [AccessToken |-> TokenNames[n], RefreshToken |-> offer, Expiry |-> now + 1]

\* fetchFailed that leaves the request where it is, to call again
fetchFailedRetries(rq) == [rq EXCEPT !.ops.fetch = @ + 1]

\* rq after the Data.Ga.Get call failed
fetchFailed(rq) == Abort([rq EXCEPT !.ops.fetch = @ + 1], "badge(Data)")

\* the Data.Ga.Get call fails: a transport, API or refresh error, or no token
BadgeFetchError(r) ==
    /\ req[r].pc = "fetch"
    /\ req' = [req EXCEPT ![r] = fetchFailed(req[r])]
    /\ UNCHANGED <<aux, now, memcache, dsProperty, dsAccount, issued, sess>>

\* afterFetch that takes a total it cannot parse for zero
afterFetchZero(rq, totals, token) ==
    [rq EXCEPT !.ops.fetch = @ + 1, !.token = token, !.result = totals,
               !.total = IF AtoiOk(totals) THEN Atoi(totals) ELSE 0,
               !.pc = "cacheSet"]

\* rq after the call answered with the totals and left token in the transport
afterFetch(rq, totals, token) ==
    IF AtoiOk(totals)
    THEN [rq EXCEPT !.ops.fetch = @ + 1, !.token = token, !.result = totals,
                    !.total = Atoi(totals), !.pc = "cacheSet"]
    ELSE Abort([rq EXCEPT !.ops.fetch = @ + 1, !.result = totals],
               "badge(Total)")

\* the Data.Ga.Get call answers, the token as it was
BadgeFetch(r, totals) ==
    /\ req[r].pc = "fetch"
    /\ req[r].token # NilToken
    /\ req' = [req EXCEPT ![r] = afterFetch(req[r], totals, req[r].token)]
    /\ UNCHANGED <<aux, now, memcache, dsProperty, dsAccount, issued, sess>>

\* the Data.Ga.Get call answers after the transport refreshed its token
BadgeFetchRefresh(r, totals, offer) ==
    /\ req[r].pc = "fetch"
    /\ req[r].token # NilToken
    /\ issued < MaxIssued
    /\ issued' = issued + 1
    /\ req' = [req EXCEPT ![r] =
           afterFetch(req[r], totals, <<Refreshed(issued + 1, offer)>>)]
    /\ UNCHANGED <<aux, now, memcache, dsProperty, dsAccount, sess>>

\* BadgeItem that stores the total as the API wrote it
BadgeItemRaw(rq) ==
    [Key |-> BadgeKey(rq.path), Value |-> rq.result, Expiration |-> BadgeTTL]

\* the item badge stores for rq
BadgeItem(rq) ==
    [Key |-> BadgeKey(rq.path), Value |-> Itoa(rq.total), Expiration |-> BadgeTTL]

\* afterSet that gives up when memcache.Set failed
afterSetFatal(rq, ok) ==
    LET a == SetToken(rq.a, rq.token[1])
        set == [rq EXCEPT !.ops.cacheSet = @ + 1, !.a = a]
    IN  IF ~ok THEN Abort(set, "badge(Memcache)")
        ELSE IF a # rq.loaded THEN [set EXCEPT !.pc = "putAccount"]
        ELSE Render(set)

\* rq after memcache.Set answered ok or not: a.SetToken and the comparison
afterSet(rq, ok) ==
    LET a == SetToken(rq.a, rq.token[1])
        set == [rq EXCEPT !.ops.cacheSet = @ + 1, !.a = a,
                          !.logged = IF ok THEN @ ELSE @ \cup {"badge(Memcache)"}]
    IN  IF a # rq.loaded THEN [set EXCEPT !.pc = "putAccount"] ELSE Render(set)

\* origin after the item under key was stored with a total of profile
OriginSet(key, profile) ==
    [k \in DOMAIN origin \cup {key} |-> IF k = key THEN profile ELSE origin[k]]

BadgeCacheSet(r, ok) ==
    LET item == BadgeItem(req[r]) IN
    /\ req[r].pc = "cacheSet"
    /\ memcache' = IF ok THEN CacheSet(item.Key, item.Value, item.Expiration)
                   ELSE memcache
    /\ origin' = IF ok THEN OriginSet(item.Key, req[r].p.Profile) ELSE origin
    /\ req' = [req EXCEPT ![r] = afterSet(req[r], ok)]
    /\ UNCHANGED <<holder, pure, now, dsProperty, dsAccount, issued, sess>>

\* rq after datastore.Put answered ok or not: the layout follows either way
afterPut(rq, ok) == Render([rq EXCEPT !.ops.acctPut = @ + 1, !.putErr = ~ok])

BadgePutAccount(r, ok) ==
    /\ req[r].pc = "putAccount"
    /\ dsAccount' = IF ok THEN AccountPut(req[r].p.Account, req[r].a)
                    ELSE dsAccount
    /\ req' = [req EXCEPT ![r] = afterPut(req[r], ok)]
    /\ UNCHANGED <<aux, now, memcache, dsProperty, issued, sess>>

\* --------------------------------------------------- Wrapper, manage, auth

\* Session.Key: the Account key of the session, "" an incomplete key
SessionAccountKey(se) == se.Account.Username

\* the end of Wrapper.ServeHTTP after fn returned nil
afterHandler(se) ==
    IF se.Loaded # se.Account THEN [se EXCEPT !.pc = "persist"] ELSE IdleSess

\* the session Wrapper hands to fn for a request with the cookie ("" none)
\* when rand.Int63 would draw id; idle when Wrapper redirects instead
sessionOf(cookie, id) ==
    IF cookie = "" THEN [IdleSess EXCEPT !.Id = id]
    ELSE IF ~CacheHit(SessionKey(cookie)) THEN [IdleSess EXCEPT !.Id = cookie]
    ELSE LET u == memcache[SessionKey(cookie)].Value IN
         IF u \in DOMAIN dsAccount
         THEN [IdleSess EXCEPT !.Id = cookie, !.Account = dsAccount[u],
                               !.Loaded = dsAccount[u]]
         ELSE IdleSess

\* the start of manage: no token redirects, else the API call is next
manageStart(se, post, form) ==
    IF GetToken(se.Account) = NilToken THEN afterHandler(se)
    ELSE [se EXCEPT !.fn = "manage", !.post = post, !.form = form,
                    !.token = GetToken(se.Account), !.pc = "list"]

\* a /manage request: Wrapper loads the session, manage reads the token
ManageRequest(cookie, id, post, form) ==
    /\ sess.pc = "idle"
    /\ LET se == sessionOf(cookie, id) IN
       sess' = IF se.Id = "" THEN IdleSess ELSE manageStart(se, post, form)
    /\ UNCHANGED <<aux, now, memcache, dsProperty, dsAccount, issued, req>>

\* an /oauth request: Wrapper loads the session, auth reads the token
AuthRequest(cookie, id) ==
    /\ sess.pc = "idle"
    /\ LET se == sessionOf(cookie, id) IN
       sess' = IF se.Id = "" THEN IdleSess
               ELSE [se EXCEPT !.fn = "auth", !.token = GetToken(se.Account),
                               !.pc = "exchange"]
    /\ UNCHANGED <<aux, now, memcache, dsProperty, dsAccount, issued, req>>

\* formProperties that takes every id of the form, listed or not
formPropertiesUnlisted(se, listed) ==
    { [Account |-> SessionAccountKey(se), Id |-> id, Profile |-> se.form[id]] :
        id \in DOMAIN se.form }

\* the Property entities manage builds from the form and the listed ids
formProperties(se, listed) ==
    { [Account |-> SessionAccountKey(se), Id |-> id, Profile |-> se.form[id]] :
        id \in DOMAIN se.form \cap listed }

\* manage after AccountSummaries.List answered and left token in the transport
afterList(se, token) ==
    LET set == [se EXCEPT !.Account = SetToken(se.Account, token[1]),
                          !.token = token]
    IN  IF se.post
        THEN [set EXCEPT !.properties = formProperties(set, ApiProperties),
                         !.pc = "putMulti"]
        ELSE afterHandler(set)

\* AccountSummaries.List fails in manage or in auth: the handler returns the
\* error and Wrapper answers 500 without saving the session
ListError ==
    /\ sess.pc \in {"list", "exchange"}
    /\ sess' = IdleSess
    /\ UNCHANGED <<aux, now, memcache, dsProperty, dsAccount, issued, req>>

\* AccountSummaries.List answers in manage, the token as it was
ManageList ==
    /\ sess.pc = "list"
    /\ sess' = afterList(sess, sess.token)
    /\ UNCHANGED <<aux, now, memcache, dsProperty, dsAccount, issued, req>>

\* AccountSummaries.List answers in manage after the transport refreshed
ManageListRefresh(offer) ==
    /\ sess.pc = "list"
    /\ issued < MaxIssued
    /\ issued' = issued + 1
    /\ sess' = afterList(sess, <<Refreshed(issued + 1, offer)>>)
    /\ UNCHANGED <<aux, now, memcache, dsProperty, dsAccount, req>>

\* the datastore's Property kind after a successful PutMulti of properties
PropertyPutMulti(properties) ==
    LET ids == {p.Id : p \in properties} IN
    [id \in DOMAIN dsProperty \cup ids |->
        IF id \in ids THEN CHOOSE p \in properties : p.Id = id
        ELSE dsProperty[id]]

\* datastore.PutMulti of the properties; an error is logged
ManagePutMulti(ok) ==
    /\ sess.pc = "putMulti"
    /\ dsProperty' = IF ok THEN PropertyPutMulti(sess.properties) ELSE dsProperty
    /\ sess' = [sess EXCEPT !.pc = "deleteMulti"]
    /\ UNCHANGED <<aux, now, memcache, dsAccount, issued, req>>

\* memcache after a successful DeleteMulti of the keys
CacheDeleteMulti(keys) == [k \in DOMAIN memcache \ keys |-> memcache[k]]

\* memcache.DeleteMulti of the badge keys; an error is logged; manage returns
ManageDeleteMulti(ok) ==
    /\ sess.pc = "deleteMulti"
    /\ memcache' = IF ok
                   THEN CacheDeleteMulti({BadgeKey(p.Id) : p \in sess.properties})
                   ELSE memcache
    /\ origin' = IF ok
                 THEN [k \in DOMAIN origin \ {BadgeKey(p.Id) : p \in sess.properties}
                          |-> origin[k]]
                 ELSE origin
    /\ sess' = afterHandler(sess)
    /\ UNCHANGED <<holder, pure, now, dsProperty, dsAccount, issued, req>>

\* auth after Exchange and AccountSummaries.List answered
afterExchange(se, token) ==
    afterHandler([se EXCEPT
        !.Account = SetToken([se.Account EXCEPT !.Username = ApiUsername],
                             token[1]),
        !.token = token])

\* Exchange succeeds with access token number issued + 1 and the refresh
\* token offer, and AccountSummaries.List answers
AuthExchange(offer) ==
    /\ sess.pc = "exchange"
    /\ issued < MaxIssued
    /\ issued' = issued + 1
    /\ sess' = afterExchange(sess, <<Refreshed(issued + 1, offer)>>)
    /\ UNCHANGED <<aux, now, memcache, dsProperty, dsAccount, req>>

\* Exchange fails, which auth ignores, and the session's token still works
AuthExchangeFailed ==
    /\ sess.pc = "exchange"
    /\ sess.token # NilToken
    /\ sess' = afterExchange(sess, sess.token)
    /\ UNCHANGED <<aux, now, memcache, dsProperty, dsAccount, issued, req>>

\* Wrapper saves a changed session: memcache.Set, then datastore.Put
WrapperPersist(setOk, putOk) ==
    /\ sess.pc = "persist"
    /\ memcache' = IF setOk
                   THEN CacheSet(SessionKey(sess.Id), sess.Account.Username,
                                 SessionTTL)
                   ELSE memcache
    /\ dsAccount' = IF putOk /\ SessionAccountKey(sess) # ""
                    THEN AccountPut(SessionAccountKey(sess), sess.Account)
                    ELSE dsAccount
    /\ sess' = IdleSess
    /\ UNCHANGED <<aux, now, dsProperty, issued, req>>

\* the steps of the badge request r
Badge(r) ==
    \/ \E url \in BadgeUrls : BadgeCacheGet(r, url)
    \/ BadgeGetProperty(r)
    \/ BadgeGetAccount(r)
    \/ BadgeFetchError(r)
    \/ \E totals \in ApiTotals : BadgeFetch(r, totals)
    \/ \E totals \in ApiTotals, offer \in RefreshOffers :
           BadgeFetchRefresh(r, totals, offer)
    \/ \E ok \in BOOLEAN : BadgeCacheSet(r, ok)
    \/ \E ok \in BOOLEAN : BadgePutAccount(r, ok)

\* the steps of the request served through Wrapper, DeleteMulti apart
WebButDelete ==
    \/ \E cookie \in SessionIds \cup {""}, id \in SessionIds, post \in BOOLEAN,
          form \in Forms : ManageRequest(cookie, id, post, form)
    \/ \E cookie \in SessionIds \cup {""}, id \in SessionIds :
          AuthRequest(cookie, id)
    \/ ListError
    \/ ManageList
    \/ \E offer \in RefreshOffers : ManageListRefresh(offer)
    \/ \E ok \in BOOLEAN : ManagePutMulti(ok)
    \/ \E offer \in RefreshOffers : AuthExchange(offer)
    \/ AuthExchangeFailed
    \/ \E setOk \in BOOLEAN, putOk \in BOOLEAN : WrapperPersist(setOk, putOk)

\* the steps of the request served through Wrapper
Web == WebButDelete \/ \E ok \in BOOLEAN : ManageDeleteMulti(ok)

\* ------------------------------------------------- the token holder alone

\* a.SetToken(t) on holder's Account
HolderSetToken(t) ==
    /\ Len(holder.supplied) < MaxCalls
    /\ holder' = [holder EXCEPT !.a = SetToken(holder.a, t),
                                !.supplied = Append(@, t),
                                !.asked = FALSE, !.got = NilToken]
    /\ UNCHANGED <<pure, origin, now, memcache, dsProperty, dsAccount, issued, req, sess>>

\* a.GetToken() on holder's Account
HolderGetToken ==
    /\ ~holder.asked
    /\ holder' = [holder EXCEPT !.asked = TRUE, !.got = GetToken(holder.a)]
    /\ UNCHANGED <<pure, origin, now, memcache, dsProperty, dsAccount, issued, req, sess>>

InitToken ==
    InitCore /\ holder \in {NewHolder(a) : a \in HolderAccounts} /\ pure = IdlePure

NextToken == (\E t \in HolderTokens : HolderSetToken(t)) \/ HolderGetToken

\* SetToken and GetToken called in any order on any Account
SpecToken == InitToken /\ [][NextToken]_vars

\* --------------------------------------------- metric, size and the layout

\* metric(pure.n) is called
ApplyMetric ==
    /\ pure.fn = "metric"
    /\ Len(pure.outs) < MaxApply
    /\ pure' = [pure EXCEPT !.outs = Append(@, metric(pure.n))]
    /\ UNCHANGED <<holder, origin, now, memcache, dsProperty, dsAccount, issued, req, sess>>

\* the end of badge fills in the template parameters for the total pure.n
ApplyLayout ==
    /\ pure.fn = "layout"
    /\ Len(pure.outs) < MaxApply
    /\ pure' = [pure EXCEPT !.outs = Append(@, BadgeParams(pure.n))]
    /\ UNCHANGED <<holder, origin, now, memcache, dsProperty, dsAccount, issued, req, sess>>

\* size is called on pure.s, on pure.t and on the two joined
ApplySize ==
    /\ pure.fn = "size"
    /\ Len(pure.outs) < MaxApply
    /\ pure' = [pure EXCEPT !.outs =
           Append(@, [s |-> size(pure.s), t |-> size(pure.t),
                      st |-> size(pure.s \o pure.t)])]
    /\ UNCHANGED <<holder, origin, now, memcache, dsProperty, dsAccount, issued, req, sess>>

InitPure == InitCore /\ holder = IdleHolder /\ pure \in PureInputs

NextPure == ApplyMetric \/ ApplyLayout \/ ApplySize

\* metric, size and the layout called on any input, more than once
SpecPure == InitPure /\ [][NextPure]_vars

\* the badge handler: requests side by side as time passes
Next == Tick \/ \E r \in Reqs : Badge(r)

Spec == Init /\ [][Next]_vars

\* the steps of the request r after memcache.Get missed: the calls it waits for
InFlight(r) ==
    \/ BadgeGetProperty(r)
    \/ BadgeGetAccount(r)
    \/ BadgeFetchError(r)
    \/ \E totals \in ApiTotals : BadgeFetch(r, totals)
    \/ \E totals \in ApiTotals, offer \in RefreshOffers :
           BadgeFetchRefresh(r, totals, offer)
    \/ \E ok \in BOOLEAN : BadgeCacheSet(r, ok)
    \/ \E ok \in BOOLEAN : BadgePutAccount(r, ok)

\* badge requests one at a time as time passes
NextSeq == Tick \/ Badge("r1")

SpecSeq == Init /\ [][NextSeq]_vars

\* badge requests one at a time when every call a request makes returns
SpecFair == SpecSeq /\ WF_vars(InFlight("r1"))

\* a badge request beside a request through Wrapper
NextWeb == Badge("r1") \/ Web

SpecWeb == Init /\ [][NextWeb]_vars

\* a badge request beside a request through Wrapper when memcache.DeleteMulti
\* never fails
NextDeleted == Badge("r1") \/ WebButDelete \/ ManageDeleteMulti(TRUE)

SpecDeleted == Init /\ [][NextDeleted]_vars

\* ---------------------------------------------------------------- claims

\* the badge request r takes a step out of the place pc
Moves(r, pc) == req[r].pc = pc /\ req'[r] # req[r]

\* a badge request of r is accepted
Accepted(r) == Finished(r) /\ req'[r] # req[r]

\* the totals of ApiTotals that are integers, with the integer and its
\* decimal string written out
ParsableTotals == {<<"7">>, <<"+", "4", "2">>}

ExpectedTotal(result) == IF result = <<"7">> THEN 7 ELSE 42

ExpectedValue(result) == IF result = <<"7">> THEN <<"7">> ELSE <<"4", "2">>

OnlyCacheGet == [NoOps EXCEPT !.cacheGet = 1]

\* the token the transport holds differs from the snapshot in a field that
\* SetToken copies
CredentialDiffers(tok, loaded) ==
    \/ tok.AccessToken # loaded.AccessToken
    \/ tok.Expiry # loaded.Expiry
    \/ (tok.RefreshToken # "" /\ tok.RefreshToken # loaded.RefreshToken)

\* C1: a request that finds an item under "b:"+path whose value is an
\* integer renders that integer at once: it reads and writes neither the
\* datastore nor memcache and calls no API.
C1_CacheHitPath ==
    [][\A r \in Reqs :
        LET key == BadgeKey(req'[r].path) IN
        (Accepted(r) /\ CacheHit(key) /\ AtoiOk(memcache[key].Value)) =>
            /\ req'[r].pc = "done"
            /\ req'[r].total = Atoi(memcache[key].Value)
            /\ req'[r].body = <<BadgeParams(Atoi(memcache[key].Value))>>
            /\ req'[r].ops = OnlyCacheGet
            /\ UNCHANGED <<memcache, dsProperty, dsAccount, issued>>]_vars

C1_Witness ==
    \E r \in Reqs :
        /\ req[r].pc = "done" /\ req[r].ops = OnlyCacheGet
        /\ req[r].path = P1 /\ req[r].total = 42
        /\ CacheHit(BadgeKey(P1))
        /\ memcache[BadgeKey(P1)].Value = <<"4", "2">>

\* C2: on a miss with the Property and the Account stored, a total the API
\* reports that is the integer v makes the request go on with v, a
\* successful memcache.Set leaves "b:"+path = the decimal string of v
\* expiring in 12 hours, and the request renders v.
C2_CacheMissPath ==
    [][\A r \in Reqs :
        /\ (Moves(r, "fetch") /\ req'[r].result \in ParsableTotals) =>
              /\ req'[r].pc = "cacheSet"
              /\ req'[r].total = ExpectedTotal(req'[r].result)
        /\ (Moves(r, "cacheSet") /\ "badge(Memcache)" \notin req'[r].logged) =>
              /\ BadgeKey(req[r].path) \in DOMAIN memcache'
              /\ memcache'[BadgeKey(req[r].path)] =
                    [Value |-> ExpectedValue(req[r].result), Expires |-> now + 12]
        /\ (req'[r].pc = "done" /\ req'[r].ops.fetch = 1) =>
              /\ req'[r].total = ExpectedTotal(req'[r].result)
              /\ req'[r].body = <<BadgeParams(ExpectedTotal(req'[r].result))>>]_vars

C2_Witness ==
    \E r \in Reqs :
        /\ req[r].pc = "done" /\ req[r].ops.fetch = 1 /\ req[r].path = P1
        /\ req[r].result = <<"+", "4", "2">> /\ req[r].total = 42
        /\ BadgeKey(P1) \in DOMAIN memcache
        /\ memcache[BadgeKey(P1)] = [Value |-> <<"4", "2">>, Expires |-> now + 12]

\* C4: a fetch that fails, or whose total is no integer, ends the request:
\* nothing is rendered, no total is put in its place, and neither memcache
\* nor the Account entity is written.
C4_UpstreamFailure ==
    [][\A r \in Reqs :
        /\ (Moves(r, "fetch") /\ req'[r].result \notin ParsableTotals) =>
              /\ req'[r].pc = "aborted"
              /\ UNCHANGED <<memcache, dsAccount, dsProperty>>
        /\ (req'[r].pc = "aborted" /\ req'[r].ops.fetch = 1) =>
              /\ req'[r].body = <<>> /\ req'[r].headers = {}
              /\ req'[r].total = 0
              /\ req'[r].ops.cacheSet = 0 /\ req'[r].ops.acctPut = 0]_vars

C4_Witness ==
    /\ req["r1"].pc = "aborted" /\ req["r1"].logged = {"badge(Data)"}
    /\ req["r1"].ops.fetch = 1
    /\ req["r2"].pc = "aborted" /\ req["r2"].logged = {"badge(Total)"}
    /\ req["r2"].ops.fetch = 1 /\ req["r2"].path = P1
    /\ ~CacheHit(BadgeKey(P1))

\* C5: on a miss, a Property that is not stored, or one whose Account is
\* not stored, ends the request: nothing is rendered, the API is not called
\* and memcache is not written.
C5_NotFound ==
    [][\A r \in Reqs :
        /\ ( \/ (Moves(r, "getProperty") /\ req[r].path \notin DOMAIN dsProperty)
             \/ (Moves(r, "getAccount") /\ req[r].p.Account \notin DOMAIN dsAccount) )
           => /\ req'[r].pc = "aborted"
              /\ UNCHANGED <<memcache, dsAccount, dsProperty, issued>>
        /\ (req'[r].pc = "aborted" /\ req'[r].ops.fetch = 0) =>
              /\ req'[r].body = <<>> /\ req'[r].headers = {}
              /\ req'[r].ops.cacheSet = 0 /\ req'[r].ops.acctPut = 0]_vars

C5_Witness ==
    /\ req["r1"].pc = "aborted" /\ req["r1"].logged = {"badge(Property)"}
    /\ req["r1"].path = Ghost /\ Ghost \notin DOMAIN dsProperty
    /\ req["r2"].pc = "aborted" /\ req["r2"].logged = {"badge(Account)"}
    /\ req["r2"].path = P2 /\ dsProperty[P2].Account \notin DOMAIN dsAccount

\* C6: a request that finds an item under "b:"+path whose value is no
\* integer ends there: it reads neither the datastore nor the API, leaves
\* the item as it is and renders nothing.
C6_CorruptedCache ==
    [][\A r \in Reqs :
        LET key == BadgeKey(req'[r].path) IN
        (Accepted(r) /\ CacheHit(key) /\ ~AtoiOk(memcache[key].Value)) =>
            /\ req'[r].pc = "aborted"
            /\ req'[r].ops = OnlyCacheGet
            /\ req'[r].body = <<>> /\ req'[r].headers = {}
            /\ UNCHANGED <<memcache, dsProperty, dsAccount, issued>>]_vars

C6_Witness ==
    \E r \in Reqs :
        /\ req[r].pc = "aborted" /\ req[r].logged = {"badge(Memcache read)"}
        /\ req[r].path = P2 /\ P2 \in DOMAIN dsProperty
        /\ CacheHit(BadgeKey(P2))
        /\ memcache[BadgeKey(P2)].Value = <<"n", "a", "n">>

\* C7: after a fetch that succeeded the Account is put if and only if the
\* transport's token differs from the snapshot in a field SetToken copies;
\* the entity put carries the token's access token and expiry, and the
\* snapshot's refresh token unless the token has one.
C7_TokenRefreshPersistence ==
    [][\A r \in Reqs :
        /\ Moves(r, "cacheSet") =>
              /\ req'[r].pc = (IF CredentialDiffers(req[r].token[1], req[r].loaded)
                               THEN "putAccount" ELSE "done")
              /\ UNCHANGED dsAccount
        /\ (Moves(r, "putAccount") /\ ~req'[r].putErr) =>
              LET tok == req[r].token[1]  loaded == req[r].loaded IN
              /\ req[r].p.Account \in DOMAIN dsAccount'
              /\ dsAccount'[req[r].p.Account] =
                    [Username |-> loaded.Username,
                     AccessToken |-> tok.AccessToken,
                     RefreshToken |-> IF tok.RefreshToken # "" THEN tok.RefreshToken
                                      ELSE loaded.RefreshToken,
                     Expiry |-> tok.Expiry]
        /\ (req'[r].pc = "done" /\ req'[r].ops.fetch = 1) =>
              (req'[r].ops.acctPut = 1 <=> req'[r].a # req'[r].loaded)]_vars

C7_Witness ==
    \E r \in Reqs :
        /\ req[r].pc = "done" /\ req[r].ops.acctPut = 1 /\ ~req[r].putErr
        /\ req[r].loaded.AccessToken = "a0"
        /\ dsAccount["alice"].AccessToken = "a1"
        /\ dsAccount["alice"].RefreshToken = "r0"
        /\ dsAccount["alice"] = req[r].a

\* C9: a memcache.Set or datastore.Put that fails after the total was parsed
\* changes neither the total nor whether the badge is rendered, and the
\* Account is still put after a failed memcache.Set.
C9_PersistenceWarnings ==
    [][\A r \in Reqs :
        /\ (Moves(r, "cacheSet") /\ "badge(Memcache)" \in req'[r].logged) =>
              /\ req'[r].total = req[r].total
              /\ req'[r].pc = (IF CredentialDiffers(req[r].token[1], req[r].loaded)
                               THEN "putAccount" ELSE "done")
        /\ (Moves(r, "putAccount") /\ req'[r].putErr) =>
              /\ req'[r].pc = "done"
              /\ req'[r].total = req[r].total
        /\ (req'[r].pc = "done" /\ req'[r].ops.fetch = 1) =>
              /\ req'[r].body = <<BadgeParams(ExpectedTotal(req'[r].result))>>
              /\ req'[r].headers = BadgeHeaders]_vars

C9_Witness ==
    \E r \in Reqs :
        /\ req[r].pc = "done" /\ "badge(Memcache)" \in req[r].logged
        /\ req[r].putErr /\ req[r].ops.acctPut = 1
        /\ req[r].total = 42 /\ req[r].body = <<BadgeParams(42)>>
        /\ BadgeKey(req[r].path) \notin DOMAIN memcache

\* C3, as the claim has it: once the item of a property is stored and has
\* not expired, no badge request of the property reads the datastore or
\* calls the API.
C3_NoAccessWhilePresent ==
    [][\A r \in Reqs :
        (Moves(r, "getProperty") \/ Moves(r, "getAccount") \/ Moves(r, "fetch"))
            => ~CacheHit(BadgeKey(req[r].path))]_vars

\* C3, amended: a request that arrives while the item is stored and has not
\* expired reads the datastore and calls the API not at all; only a request
\* whose own memcache.Get missed goes on to them, and it calls the API at
\* most once.
C3_NoAccessAfterHit ==
    [][\A r \in Reqs :
        /\ (Accepted(r) /\ CacheHit(BadgeKey(req'[r].path))) =>
              /\ req'[r].pc \in {"done", "aborted"}
              /\ req'[r].ops = OnlyCacheGet
        /\ (req'[r].pc = "getProperty" /\ req'[r] # req[r]) =>
              /\ Finished(r)
              /\ ~CacheHit(BadgeKey(req'[r].path))
        /\ (req'[r].pc = "getAccount" /\ req'[r] # req[r]) =>
              req[r].pc = "getProperty"
        /\ (req'[r].pc = "fetch" /\ req'[r] # req[r]) =>
              req[r].pc = "getAccount"
        /\ req'[r].ops.fetch > req[r].ops.fetch =>
              (req[r].pc = "fetch" /\ req'[r].ops.fetch = 1)]_vars

\* a request served from the item another request stored, while a request
\* that missed before it was stored is still on its way to the API
C3_Witness ==
    /\ req["r1"].pc = "done" /\ req["r1"].ops = OnlyCacheGet
    /\ req["r1"].path = P1 /\ CacheHit(BadgeKey(P1))
    /\ req["r2"].pc = "fetch" /\ req["r2"].path = P1

RECURSIVE LastRefresh(_, _)
\* the last refresh token of the tokens that is not empty, or else init
LastRefresh(tokens, init) ==
    IF Len(tokens) = 0 THEN init
    ELSE IF tokens[Len(tokens)].RefreshToken # "" THEN tokens[Len(tokens)].RefreshToken
    ELSE LastRefresh(SubSeq(tokens, 1, Len(tokens) - 1), init)

\* C8: after any SetToken calls the Account has the access token and the
\* expiry of the last token given and the last refresh token given that was
\* not empty (its own if there was none); GetToken gives nil exactly when
\* the access token is empty, and else the three fields.
C8_TokenHolder ==
    LET n == Len(holder.supplied) IN
    /\ holder.a.Username = holder.init.Username
    /\ n > 0 => /\ holder.a.AccessToken = holder.supplied[n].AccessToken
                /\ holder.a.Expiry = holder.supplied[n].Expiry
    /\ n = 0 => holder.a = holder.init
    /\ holder.a.RefreshToken = LastRefresh(holder.supplied, holder.init.RefreshToken)
    /\ holder.asked =>
          /\ (holder.got = NilToken) <=> (holder.a.AccessToken = "")
          /\ holder.got # NilToken =>
                holder.got = <<[AccessToken |-> holder.a.AccessToken,
                                RefreshToken |-> holder.a.RefreshToken,
                                Expiry |-> holder.a.Expiry]>>

\* an empty refresh token was given after one that was not, and GetToken
\* answered for the Account
C8_Witness ==
    /\ Len(holder.supplied) = 3
    /\ holder.init.RefreshToken = "r0"
    /\ holder.supplied[2].RefreshToken = "r1"
    /\ holder.supplied[3].RefreshToken = ""
    /\ holder.a.RefreshToken = "r1"
    /\ holder.asked /\ holder.got # NilToken

\* the requests that fetched a total for path and rendered it
Racers(path) ==
    {r \in Reqs : req[r].pc = "done" /\ req[r].ops.fetch = 1 /\ req[r].path = path}

IsDecimalOf(str, v) ==
    /\ AtoiOk(str) /\ Atoi(str) = v
    /\ str[1] # "+"
    /\ (v >= 0 /\ Len(str) > 1) => str[1] # "0"
    /\ v < 0 => (str[1] = "-" /\ str[2] # "0")

\* str is the truncated quotient of n by unit, then the suffix
IsQuotientOf(str, n, unit, suffix) ==
    /\ Len(str) > 1
    /\ str[Len(str)] = suffix
    /\ LET front == SubSeq(str, 1, Len(str) - 1) IN
       /\ AtoiOk(front)
       /\ IsDecimalOf(front, Atoi(front))
       /\ Atoi(front) * unit <= n /\ n < (Atoi(front) + 1) * unit

\* C11: metric answers for every integer n, in exactly one of three ways:
\* above 1,000,000 the truncated quotient by 1,000,000 then "M" in #4c1;
\* else above 1,000 the truncated quotient by 1,000 then "k" in #a4a61d;
\* else the decimal string of n in #e05d44.  1,000,000 gives "1000k",
\* 1,000 gives "1000", 1,000,001 gives "1M", 1500 gives "1k", 999 "999".
C11_FormatMagnitude ==
    pure.fn = "metric" =>
        \A j \in 1..Len(pure.outs) :
            LET n == pure.n
                out == pure.outs[j]
            IN  /\ DOMAIN out = {"number", "color"}
                /\ n > 1000000 =>
                      /\ IsQuotientOf(out.number, n, 1000000, "M")
                      /\ out.color = "#4c1"
                /\ (n <= 1000000 /\ n > 1000) =>
                      /\ IsQuotientOf(out.number, n, 1000, "k")
                      /\ out.color = "#a4a61d"
                /\ n <= 1000 =>
                      /\ IsDecimalOf(out.number, n)
                      /\ out.color = "#e05d44"
                /\ n = 1000000 => out.number = <<"1", "0", "0", "0", "k">>
                /\ n = 1000 => out.number = <<"1", "0", "0", "0">>
                /\ n = 1000001 => out.number = <<"1", "M">>
                /\ n = 1500 => out.number = <<"1", "k">>
                /\ n = 999 => out.number = <<"9", "9", "9">>

\* metric was called on the boundary 1,000,000 and answered "1000k"
C11_Witness ==
    /\ pure.fn = "metric" /\ pure.n = 1000000
    /\ Len(pure.outs) > 0
    /\ pure.outs[1] = [number |-> <<"1", "0", "0", "0", "k">>, color |-> "#a4a61d"]

\* C12: for every total n the left label is "users", the right label is
\* metric's number then "/week", the widths are size of the labels, Total
\* is their sum, LeftCenter is LeftWidth/2 + 1, RightCenter is LeftWidth +
\* RightWidth/2 - 1, the same n gives the same layout, and
\* 0 < LeftCenter < LeftWidth < RightCenter < Total.
C12_LayoutGeometry ==
    pure.fn = "layout" =>
        \A j \in 1..Len(pure.outs) :
            LET o == pure.outs[j] IN
            /\ o.Left = <<"u", "s", "e", "r", "s">>
            /\ o.Right = metric(pure.n).number \o <<"/", "w", "e", "e", "k">>
            /\ o.LeftWidth = size(o.Left)
            /\ o.RightWidth = size(o.Right)
            /\ o.Total = o.LeftWidth + o.RightWidth
            /\ o.LeftCenter = (o.LeftWidth \div 2) + 1
            /\ o.RightCenter = o.LeftWidth + (o.RightWidth \div 2) - 1
            /\ o = pure.outs[1]
            /\ 0 < o.LeftCenter /\ o.LeftCenter < o.LeftWidth
            /\ o.LeftWidth < o.RightCenter /\ o.RightCenter < o.Total

\* the layout was filled in twice for 1500: "users" 42 wide, "1k/week" 60
C12_Witness ==
    /\ pure.fn = "layout" /\ pure.n = 1500
    /\ Len(pure.outs) = 2
    /\ pure.outs[2].Right = <<"1", "k", "/", "w", "e", "e", "k">>
    /\ pure.outs[2].LeftWidth = 42 /\ pure.outs[2].RightWidth = 60
    /\ pure.outs[2].LeftCenter = 22 /\ pure.outs[2].RightCenter = 71
    /\ pure.outs[2].Total = 102

\* C13: size of the empty string is 10; a character adds one of 2, 4, 6,
\* 7, 8, 10 (i adds 2, K and L add 7, W G O m < > @ add 10, a character of
\* no listed case adds 8); size of s then t is size(s) + size(t) - 10; the
\* same string always has the same size.
C13_TextWidth ==
    pure.fn = "size" =>
        \A j \in 1..Len(pure.outs) :
            LET o == pure.outs[j] IN
            /\ pure.s = <<>> => o.s = 10
            /\ Len(pure.s) = 1 =>
                  LET c == pure.s[1]
                      d == o.s - 10
                  IN  /\ d \in {2, 4, 6, 7, 8, 10}
                      /\ c = "i" => d = 2
                      /\ c \in {"K", "L"} => d = 7
                      /\ c \in {"W", "G", "O", "m", "<", ">", "@"} => d = 10
                      /\ c = "x" => d = 8
            /\ o.st = o.s + o.t - 10
            /\ o = pure.outs[1]

\* size was called twice on "K", on "W" and on "KW"
C13_Witness ==
    /\ pure.fn = "size" /\ pure.s = <<"K">> /\ pure.t = <<"W">>
    /\ Len(pure.outs) = 2
    /\ pure.outs[2] = [s |-> 17, t |-> 20, st |-> 27]

\* the places of a badge request in the order the handler goes through them
PcRank(pc) ==
    CASE pc = "getProperty" -> 1
      [] pc = "getAccount" -> 2
      [] pc = "fetch" -> 3
      [] pc = "cacheSet" -> 4
      [] pc = "putAccount" -> 5
      [] OTHER -> 6

\* the calls a request has made when it gives up with the message
OpsAtAbort(message) ==
    CASE message = "badge(Memcache read)" -> OnlyCacheGet
      [] message = "badge(Property)" -> [OnlyCacheGet EXCEPT !.propGet = 1]
      [] message = "badge(Account)" ->
            [OnlyCacheGet EXCEPT !.propGet = 1, !.acctGet = 1]
      [] OTHER -> [OnlyCacheGet EXCEPT !.propGet = 1, !.acctGet = 1, !.fetch = 1]

\* C14: a badge request makes each of its six calls (memcache.Get, the two
\* datastore.Get, the API call, memcache.Set, datastore.Put) at most once
\* and never goes back to a call it has made; the first read, fetch or
\* parse that fails ends it with no later call made; and when every call
\* returns, every request that has begun comes to its end.
C14_NoRetryAndCompletion ==
    /\ [](\A r \in Reqs :
            /\ \A f \in DOMAIN NoOps : req[r].ops[f] <= 1
            /\ req[r].pc = "aborted" =>
                  /\ Cardinality(req[r].logged) = 1
                  /\ \A message \in req[r].logged :
                         req[r].ops = OpsAtAbort(message))
    /\ [][\A r \in Reqs :
            (~Finished(r) /\ req'[r] # req[r]) =>
                /\ PcRank(req'[r].pc) > PcRank(req[r].pc)
                /\ \A f \in DOMAIN NoOps : req'[r].ops[f] >= req[r].ops[f]]_vars
    /\ \A r \in Reqs : ~Finished(r) ~> Finished(r)

\* a request that made all six calls, once each, and rendered
C14_Witness ==
    \E r \in Reqs :
        /\ req[r].pc = "done"
        /\ \A f \in DOMAIN NoOps : req[r].ops[f] = 1

\* C15: a badge request writes the SVG body, with Content-Type
\* image/svg+xml and Cache-Control public, max-age=3600, exactly when it
\* got a total: from an item it read that is an integer, or from the API
\* answer it fetched that is an integer.  A request that gave up on an
\* error wrote no body and no header.  The body is the layout of the total
\* the same request read or fetched.
C15_RendersOrNothing ==
    /\ [](\A r \in Reqs :
            /\ req[r].pc = "done" =>
                  (req[r].headers = BadgeHeaders /\ Len(req[r].body) = 1)
            /\ req[r].pc # "done" => (req[r].headers = {} /\ req[r].body = <<>>)
            /\ req[r].pc = "aborted" => req[r].logged # {})
    /\ [][\A r \in Reqs :
            LET key == BadgeKey(req'[r].path)
                hit == Accepted(r) /\ req'[r].pc # "panicked" /\ CacheHit(key)
                fetched == req[r].pc = "fetch" /\ req'[r].ops.fetch = 1
                                               /\ req[r].ops.fetch = 0
            IN  /\ (hit /\ AtoiOk(memcache[key].Value)) =>
                      /\ req'[r].pc = "done"
                      /\ req'[r].body = <<BadgeParams(Atoi(memcache[key].Value))>>
                /\ (hit /\ ~AtoiOk(memcache[key].Value)) => req'[r].pc = "aborted"
                /\ fetched =>
                      IF req'[r].result \in ParsableTotals
                      THEN /\ req'[r].pc = "cacheSet"
                           /\ req'[r].total = ExpectedTotal(req'[r].result)
                      ELSE req'[r].pc = "aborted"
                /\ (req'[r].pc = "done" /\ req[r].pc # "done") =>
                      /\ hit \/ req[r].pc \in {"cacheSet", "putAccount"}
                      /\ ~hit => /\ req'[r].result = req[r].result
                                 /\ req'[r].result \in ParsableTotals
                                 /\ req'[r].body =
                                       <<BadgeParams(ExpectedTotal(req[r].result))>>
                /\ (req[r].pc \in {"cacheSet", "putAccount"} /\ req'[r] # req[r]) =>
                      /\ req'[r].pc \in {"putAccount", "done"}
                      /\ req'[r].result = req[r].result]_vars

\* one request rendered the 42 it fetched though memcache.Set failed, and
\* the other gave up on an API error with nothing written
C15_Witness ==
    /\ req["r1"].pc = "done" /\ req["r1"].result = <<"+", "4", "2">>
    /\ "badge(Memcache)" \in req["r1"].logged
    /\ req["r1"].headers = BadgeHeaders
    /\ req["r1"].body = <<BadgeParams(42)>>
    /\ req["r2"].pc = "aborted" /\ req["r2"].logged = {"badge(Data)"}
    /\ req["r2"].headers = {} /\ req["r2"].body = <<>>

\* the ids of the form in hand that the API lists
ListedIds == DOMAIN sess.form \cap ApiProperties

\* a step changes the Property kind only in manage's PutMulti, and then only
\* under ids of the form that the API lists, each entity keyed by its Id,
\* owned by the session's Account and with the profile of the form
WritesOnlyListed ==
    dsProperty' # dsProperty =>
        /\ sess.pc = "putMulti"
        /\ \A id \in DOMAIN dsProperty' :
               (id \notin DOMAIN dsProperty \/ dsProperty'[id] # dsProperty[id]) =>
                   /\ id \in ListedIds
                   /\ dsProperty'[id] =
                         [Account |-> sess.Account.Username, Id |-> id,
                          Profile |-> sess.form[id]]

\* memcache.DeleteMulti follows PutMulti in the same request, whether
\* PutMulti put the entities or not
DeleteFollowsPut ==
    (sess.pc = "putMulti" /\ sess' # sess) =>
        /\ sess'.pc = "deleteMulti"
        /\ sess'.form = sess.form /\ sess'.Id = sess.Id
        /\ {p.Id : p \in sess'.properties} = ListedIds

C17_RefreshTokenKept ==
    [][\A u \in DOMAIN dsAccount :
          dsAccount[u].RefreshToken # "" =>
              (u \in DOMAIN dsAccount' /\ dsAccount'[u].RefreshToken # "")]_vars

\* C18: when no request through Wrapper is underway and every badge request
\* has finished, an item stored under "b:"+id by a badge request was fetched
\* for the profile the Property of id has now, so after a manage POST that
\* changed the profile no item fetched for the profile before it is left.
C18_NoStaleItemAfterPost ==
    (sess.pc = "idle" /\ \A r \in Reqs : Finished(r)) =>
        \A id \in DOMAIN dsProperty :
            (BadgeKey(id) \in DOMAIN memcache /\ BadgeKey(id) \in DOMAIN origin)
                => origin[BadgeKey(id)] = dsProperty[id].Profile

\* the place of an access token in the order the authorization server
\* issued them; 0 for the token stored at the start
IssueNumber(name) ==
    IF \E i \in 1..Len(TokenNames) : TokenNames[i] = name
    THEN CHOOSE i \in 1..Len(TokenNames) : TokenNames[i] = name
    ELSE 0

\* C19: when badge requests and requests through Wrapper for one Account
\* interleave, no step replaces the access token of the Account entity by
\* one issued before it, nor its expiry by an earlier one.
C19_NeverOlderCredential ==
    [][\A u \in DOMAIN dsAccount :
          /\ u \in DOMAIN dsAccount'
          /\ IssueNumber(dsAccount'[u].AccessToken) >=
                 IssueNumber(dsAccount[u].AccessToken)
          /\ dsAccount'[u].Expiry >= dsAccount[u].Expiry]_vars

\* C20: no badge request faults at the slice of its path, "/badge/" alone
\* included, and the path "/badge/" + id + ".svg" gives the id.
C20_ExtractionDefined ==
    \A r \in Reqs :
        /\ req[r].pc # "panicked"
        /\ req[r].pc # "idle" => req[r].path \in {P1, P2, Ghost}

====
